---- MODULE Spec2Model ----
(***************************************************************************)
(* Model of src/assessment.js: a command-line chat client.  Startup loads  *)
(* .env into process.env, checks GITHUB_TOKEN, then main() loops: ask for  *)
(* a line, handle "exit" / blank input, otherwise chat() pushes the user   *)
(* message, awaits client.chat.completions.create and pushes the reply.    *)
(* Text is modelled as a sequence of one-character strings so that trim,   *)
(* toLowerCase, indexOf, substring and split are computed, not assumed.    *)
(***************************************************************************)
EXTENDS Integers, Sequences, FiniteSets, TLC

(* ---------------------------------------------------------------------- *)
(* Bounds                                                                   *)
(* ---------------------------------------------------------------------- *)
\* number of lines of a .env file in the line-by-line check of loadEnv
MaxFileLines == 2

\* number of rl.question calls explored in one run of the program
MaxPrompts == 3

(* ---------------------------------------------------------------------- *)
(* JavaScript string functions used by the program                          *)
(* ---------------------------------------------------------------------- *)
\* white space removed by String.prototype.trim (the part that can occur here)
WhiteSpace == {" ", "\t", "\r", "\n"}

RECURSIVE TrimStart(_)
TrimStart(s) ==
  IF s # <<>> /\ Head(s) \in WhiteSpace THEN TrimStart(Tail(s)) ELSE s

RECURSIVE TrimEnd(_)
TrimEnd(s) ==
  IF s # <<>> /\ s[Len(s)] \in WhiteSpace
  THEN TrimEnd(SubSeq(s, 1, Len(s) - 1))
  ELSE s

\* String.prototype.trim
Trim(s) == TrimEnd(TrimStart(s))

UpperLetters ==
  <<"A", "B", "C", "D", "E", "F", "G", "H", "I", "J", "K", "L", "M",
    "N", "O", "P", "Q", "R", "S", "T", "U", "V", "W", "X", "Y", "Z">>

LowerLetters ==
  <<"a", "b", "c", "d", "e", "f", "g", "h", "i", "j", "k", "l", "m",
    "n", "o", "p", "q", "r", "s", "t", "u", "v", "w", "x", "y", "z">>

LowerChar(c) ==
  IF \E i \in 1..Len(UpperLetters) : UpperLetters[i] = c
  THEN LowerLetters[CHOOSE i \in 1..Len(UpperLetters) : UpperLetters[i] = c]
  ELSE c

\* String.prototype.toLowerCase
ToLowerCase(s) == [i \in 1..Len(s) |-> LowerChar(s[i])]

\* String.prototype.indexOf for a one-character needle: 0-based, -1 if absent
IndexOf(s, c) ==
  IF \E i \in 1..Len(s) : s[i] = c
  THEN (CHOOSE i \in 1..Len(s) : s[i] = c /\ \A j \in 1..(i - 1) : s[j] # c) - 1
  ELSE -1

\* String.prototype.substring(from, to), 0-based, end exclusive
Substring(s, from, to) == SubSeq(s, from + 1, to)

\* String.prototype.startsWith for a one-character prefix
StartsWith(s, c) == s # <<>> /\ Head(s) = c

\* String.prototype.split for a one-character separator
RECURSIVE Split(_, _)
Split(s, sep) ==
  LET i == IndexOf(s, sep) IN
  IF i = -1
  THEN <<s>>
  ELSE <<Substring(s, 0, i)>> \o Split(Substring(s, i + 1, Len(s)), sep)

(* ---------------------------------------------------------------------- *)
(* Texts                                                                    *)
(* ---------------------------------------------------------------------- *)
GITHUB_TOKEN == <<"G", "I", "T", "H", "U", "B", "_", "T", "O", "K", "E", "N">>
ExitWord == <<"e", "x", "i", "t">>

\* .env contents tried at startup
FileScenario ==
  <<"G", "I", "T", "H", "U", "B", "_", "T", "O", "K", "E", "N", "=", "a", "b",
    "c", "1", "2", "3", "\n", "#", " ", "c", "o", "m", "m", "e", "n", "t",
    "\n", "F", "O", "O", "=", "b", "a", "r", "=", "b", "a", "z">>
FileEmptyToken ==
  <<"F", "O", "O", "=", "1", "\n", "G", "I", "T", "H", "U", "B", "_", "T", "O",
    "K", "E", "N", "=">>
FileCommented ==
  <<"#", "G", "I", "T", "H", "U", "B", "_", "T", "O", "K", "E", "N", "=", "a",
    "b", "c", "\n", "\n", " ", " ", "\t", "\n", "N", "O", "E", "Q">>
FileSpaced ==
  <<" ", " ", "G", "I", "T", "H", "U", "B", "_", "T", "O", "K", "E", "N", " ",
    "=", " ", "a", " ", "b", " ", "\r", "\n", "F", "O", "O", "=", "1", "\n",
    "F", "O", "O", "=", "2">>
FileNoToken == <<"F", "O", "O", "=", "b", "a", "r">>
\* readFileSync throws (file missing or unreadable)
Unreadable == <<"ENOENT">>

FileTokenThenEmpty ==
  <<"G", "I", "T", "H", "U", "B", "_", "T", "O", "K", "E", "N", "=", "a", "b",
    "c", "\n", "G", "I", "T", "H", "U", "B", "_", "T", "O", "K", "E", "N", "=">>

EnvFiles ==
  {FileScenario, FileEmptyToken, FileCommented, FileSpaced, FileNoToken,
   FileTokenThenEmpty, Unreadable}

\* process.env before the program starts: without a credential, with one,
\* and with one next to another variable
EnvTok == <<"o", "l", "d">>
FOO == <<"F", "O", "O">>
EnvFoo == <<"0">>
InitialEnvs ==
  {<<>>, (GITHUB_TOKEN :> EnvTok), (GITHUB_TOKEN :> EnvTok) @@ (FOO :> EnvFoo)}

\* lines the operator can type
InEmpty == <<>>
InBlank == <<" ", "\t">>
InExit == <<"e", "x", "i", "t">>
InExitCap == <<"E", "x", "i", "t">>
InExitPad == <<" ", " ", "E", "X", "I", "T", " ", " ">>
InHi == <<"h", "i">>
InHiPad == <<" ", "h", "i", " ">>
InExitQ == <<"e", "x", "i", "t", "?">>
InputLines ==
  {InEmpty, InBlank, InExit, InExitCap, InExitPad, InHi, InHiPad, InExitQ}

\* lines a .env file can be made of, for the line-by-line check of loadEnv
LineToken ==
  <<"G", "I", "T", "H", "U", "B", "_", "T", "O", "K", "E", "N", "=", "a",
    "b", "c", "1", "2", "3">>
LineComment == <<"#", " ", "c", "o", "m", "m", "e", "n", "t">>
LineTwoEq == <<"F", "O", "O", "=", "b", "a", "r", "=", "b", "a", "z">>
LineEmpty == <<>>
LineBlank == <<" ", " ", "\t">>
LineTokenEmpty ==
  <<"G", "I", "T", "H", "U", "B", "_", "T", "O", "K", "E", "N", "=">>
LineSpaced == <<" ", "F", "O", "O", " ", "=", " ", "a", " ", "b", " ", "\r">>
LineNoEq == <<"N", "O", "E", "Q">>
LineCommentedToken ==
  <<"#", "G", "I", "T", "H", "U", "B", "_", "T", "O", "K", "E", "N", "=",
    "x">>
LineIndentedComment == <<" ", " ", "#", " ", "F", "O", "O", "=", "1">>
EnvLines ==
  {LineToken, LineComment, LineTwoEq, LineEmpty, LineBlank, LineTokenEmpty,
   LineSpaced, LineNoEq, LineCommentedToken, LineIndentedComment}

\* a file: its lines joined by "\n"
RECURSIVE JoinLines(_)
JoinLines(lines) ==
  IF Len(lines) = 1 THEN lines[1]
  ELSE lines[1] \o <<"\n">> \o JoinLines(Tail(lines))

\* all files of 1..MaxFileLines lines
LineFiles ==
  {JoinLines(ls) : ls \in UNION {[1..n -> EnvLines] : n \in 1..MaxFileLines}}

(* ---------------------------------------------------------------------- *)
(* Config loader                                                            *)
(* ---------------------------------------------------------------------- *)
\* variant: a variable that is already set is not overwritten
SetEnvKeepExisting(e, key, value) ==
  IF key \in DOMAIN e THEN e
  ELSE [k \in (DOMAIN e) \cup {key} |-> IF k = key THEN value ELSE e[k]]

\* process.env[key] = value
SetEnv(e, key, value) ==
  [k \in (DOMAIN e) \cup {key} |-> IF k = key THEN value ELSE e[k]]

\* variant: the value is the second piece of trimmed.split("=")
LoadEnvLineSplit(e, line) ==
  LET trimmed == Trim(line) IN
  IF trimmed # <<>> /\ ~StartsWith(trimmed, "#")
  THEN LET eqIndex == IndexOf(trimmed, "=") IN
       IF eqIndex # -1
       THEN SetEnv(e, Trim(Substring(trimmed, 0, eqIndex)),
                   Trim(Split(trimmed, "=")[2]))
       ELSE e
  ELSE e

\* variant: comment lines are not skipped
LoadEnvLineNoComment(e, line) ==
  LET trimmed == Trim(line) IN
  IF trimmed # <<>>
  THEN LET eqIndex == IndexOf(trimmed, "=") IN
       IF eqIndex # -1
       THEN SetEnv(e, Trim(Substring(trimmed, 0, eqIndex)),
                   Trim(Substring(trimmed, eqIndex + 1, Len(trimmed))))
       ELSE e
  ELSE e

\* body of the for loop of loadEnv for one line
LoadEnvLine(e, line) ==
  LET trimmed == Trim(line) IN
  IF trimmed # <<>> /\ ~StartsWith(trimmed, "#")
  THEN LET eqIndex == IndexOf(trimmed, "=") IN
       IF eqIndex # -1
       THEN SetEnv(e, Trim(Substring(trimmed, 0, eqIndex)),
                   Trim(Substring(trimmed, eqIndex + 1, Len(trimmed))))
       ELSE e
  ELSE e

RECURSIVE LoadEnvLines(_, _)
LoadEnvLines(e, lines) ==
  IF lines = <<>> THEN e
  ELSE LoadEnvLines(LoadEnvLine(e, Head(lines)), Tail(lines))

\* loadEnv: a file that cannot be read leaves process.env as it was
LoadEnv(e, file) ==
  IF file = Unreadable THEN e ELSE LoadEnvLines(e, Split(file, "\n"))

\* process.env.GITHUB_TOKEN; Undefined when the variable is not set
Undefined == <<"undefined">>
Token(e) == IF GITHUB_TOKEN \in DOMAIN e THEN e[GITHUB_TOKEN] ELSE Undefined

\* variant: only an unset variable counts as missing
TokenMissingUnsetOnly(token) == token = Undefined

\* !token: undefined and the empty string are both falsy
TokenMissing(token) == token = Undefined \/ token = <<>>

(* ---------------------------------------------------------------------- *)
(* Messages, responses, errors and console output                           *)
(* ---------------------------------------------------------------------- *)
\* the fixed system instruction that seeds conversationHistory
SystemPrompt == <<"You are an expert coding assistant">>
SystemMessage == [role |-> "system", content |-> SystemPrompt]
UserMessage(text) == [role |-> "user", content |-> text]
AssistantMessage(text) == [role |-> "assistant", content |-> text]

\* what client.chat.completions.create can resolve with: the list of choices,
\* each reduced to its message.content (null is a legal content)
Null == <<"null">>
ReplyText == <<"o", "k">>
Responses == {<<>>, <<ReplyText>>, <<Null>>, <<ReplyText, Null>>}

\* the value create() resolved with, as seen by the step that receives it
NoResponse == [settled |-> FALSE, choices |-> <<>>]
Response(choices) == [settled |-> TRUE, choices |-> choices]

\* what it can reject with: status is NoStatus when the error has no status
\* property (connection errors)
NoStatus == 0
Statuses == {401, 429, 500, 404, NoStatus}
ErrorMessages == {<<"Bad credentials">>, <<"Connection error.">>}
ApiErrors == [status : Statuses, message : ErrorMessages]
\* response.choices[0] is undefined: reading .message throws a TypeError
TypeError ==
  [status |-> NoStatus, message |-> <<"Cannot read properties of undefined">>]
NoError == [status |-> NoStatus, message |-> <<>>]

\* console output, one record per console.log / console.error / prompt
Out(kind, text) == [kind |-> kind, text |-> text]
Line(kind) == Out(kind, <<>>)

\* variant: no branch for status 429
ErrorNoticeNo429(error) ==
  IF error.status = 401
  THEN <<Line("AuthenticationError"), Line("CheckEnvFile")>>
  ELSE IF error.status = 500
  THEN <<Line("ServerError")>>
  ELSE <<Out("UnexpectedError", error.message)>>

\* the catch block of main: the notice printed for a caught error
ErrorNotice(error) ==
  IF error.status = 401
  THEN <<Line("AuthenticationError"), Line("CheckEnvFile")>>
  ELSE IF error.status = 429
  THEN <<Line("RateLimitReached")>>
  ELSE IF error.status = 500
  THEN <<Line("ServerError")>>
  ELSE <<Out("UnexpectedError", error.message)>>

\* variant: the comparison without toLowerCase()
IsExitCommandCaseSensitive(userInput) == Trim(userInput) = ExitWord

\* userInput.toLowerCase().trim() === "exit"
IsExitCommand(userInput) == Trim(ToLowerCase(userInput)) = ExitWord

\* variant: the test without trim()
IsEmptyInputNoTrim(userInput) == userInput = <<>>

\* !userInput.trim()
IsEmptyInput(userInput) == Trim(userInput) = <<>>

(* ---------------------------------------------------------------------- *)
(* State                                                                    *)
(* ---------------------------------------------------------------------- *)
VARIABLES
  pc,                   \* where the program is: "start", "prompting" (top of
                        \* the while loop), "awaiting_input", "dispatching",
                        \* "terminated" (after break), "fatal" (process.exit(1)),
                        \* "aborted" (ended because stdin closed)
  env,                  \* process.env
  conversationHistory,  \* the transcript; <<>> before it is created
  inflight,             \* requests handed to the client and not yet settled
  questionPending,      \* rl.question was called and has not been answered
  rlOpen,               \* the readline interface is open
  userInput,            \* the line last returned by askUser
  lastError,            \* the error caught by the catch block in this step
  printed,              \* what this step wrote to the console
  exitCode,             \* the process exit code
  prompts,              \* number of rl.question calls so far
  calls,                \* number of create() invocations so far
  succeeded,            \* number of turns that ended with a reply
  failed,               \* number of turns that ended in the catch block
  turnStartLen,         \* transcript length when the current turn began
  envFile,              \* the contents of .env on disk, or Unreadable
  envLine,              \* number of lines of .env that loadEnv has processed
  lastResponse,         \* what create() resolved with in this step
  failStreak            \* number of failed turns since the last reply

vars ==
  <<pc, env, conversationHistory, inflight, questionPending, rlOpen,
    userInput, lastError, printed, exitCode, prompts, calls, succeeded,
    failed, turnStartLen, envFile, envLine, lastResponse, failStreak>>

Init ==
  /\ pc = "start"
  /\ env \in InitialEnvs
  /\ conversationHistory = <<>>
  /\ inflight = <<>>
  /\ questionPending = FALSE
  /\ rlOpen = FALSE
  /\ userInput = <<>>
  /\ lastError = NoError
  /\ printed = <<>>
  /\ exitCode = 0
  /\ prompts = 0
  /\ calls = 0
  /\ succeeded = 0
  /\ failed = 0
  /\ turnStartLen = 0
  /\ envFile \in EnvFiles
  /\ envLine = 0
  /\ lastResponse = NoResponse
  /\ failStreak = 0

(* ---------------------------------------------------------------------- *)
(* Startup: loadEnv(), the token check, creation of the client, readline    *)
(* and transcript, and the banner of main()                                 *)
(* ---------------------------------------------------------------------- *)
\* the lines loadEnv iterates over; none when readFileSync throws
FileLines(file) == IF file = Unreadable THEN <<>> ELSE Split(file, "\n")

\* what loadEnv reports: the warning of its catch block
LoadEnvWarning(file) ==
  IF file = Unreadable THEN <<Line("CouldNotReadEnv")>> ELSE <<>>

\* everything after loadEnv(): the token check, then the client, readline,
\* the transcript and the banner
AfterLoadEnv(warning) ==
  /\ IF TokenMissing(Token(env'))
     THEN /\ pc' = "fatal"
          /\ exitCode' = 1
          /\ printed' = warning \o <<Line("TokenNotFound")>>
          /\ UNCHANGED <<conversationHistory, rlOpen>>
     ELSE /\ pc' = "prompting"
          /\ rlOpen' = TRUE
          /\ conversationHistory' = <<SystemMessage>>
          /\ printed' = warning \o <<Line("Banner")>>
          /\ UNCHANGED exitCode
  /\ UNCHANGED <<inflight, questionPending, userInput, lastError, prompts,
                 calls, succeeded, failed, turnStartLen, envFile,
                 lastResponse, failStreak>>

\* variant: a .env that cannot be read is fatal
StartupUnreadableFatal(file) ==
  /\ pc = "start"
  /\ file = envFile
  /\ envLine = 0
  /\ env' = LoadEnv(env, file)
  /\ envLine' = Len(FileLines(file))
  /\ IF file = Unreadable
     THEN /\ pc' = "fatal"
          /\ exitCode' = 1
          /\ printed' = LoadEnvWarning(file)
          /\ UNCHANGED <<conversationHistory, rlOpen, inflight,
                         questionPending, userInput, lastError, prompts,
                         calls, succeeded, failed, turnStartLen, envFile,
                         lastResponse, failStreak>>
     ELSE AfterLoadEnv(LoadEnvWarning(file))

Startup(file) ==
  /\ pc = "start"
  /\ file = envFile
  /\ envLine = 0
  /\ env' = LoadEnv(env, file)
  /\ envLine' = Len(FileLines(file))
  /\ AfterLoadEnv(LoadEnvWarning(file))

(* ---------------------------------------------------------------------- *)
(* askUser: rl.question(prompt, cb)                                         *)
(* ---------------------------------------------------------------------- *)
\* On a closed interface rl.question either throws ERR_USE_AFTER_CLOSE (the
\* rejection of main() is unhandled: exit code 1) or is ignored and the
\* process ends with nothing left to do (exit code 0), depending on the
\* runtime version.
AskUser ==
  /\ pc = "prompting"
  /\ prompts < MaxPrompts
  /\ IF rlOpen
     THEN /\ questionPending' = TRUE
          /\ pc' = "awaiting_input"
          /\ prompts' = prompts + 1
          /\ printed' = <<Line("You: ")>>
          /\ UNCHANGED exitCode
     ELSE /\ pc' = "aborted"
          /\ exitCode' \in {0, 1}
          /\ printed' = <<>>
          /\ UNCHANGED <<questionPending, prompts>>
  /\ lastError' = NoError
  /\ UNCHANGED <<env, conversationHistory, inflight, rlOpen, userInput,
                 calls, succeeded, failed, turnStartLen>>
  /\ UNCHANGED <<envFile, envLine, failStreak>>
  /\ lastResponse' = NoResponse

\* stdin ends: readline closes the interface; a pending question is never
\* answered, so a program waiting for input simply ends
StdinEnd ==
  /\ rlOpen
  /\ pc \in {"prompting", "awaiting_input", "dispatching"}
  /\ rlOpen' = FALSE
  /\ pc' = IF pc = "awaiting_input" THEN "aborted" ELSE pc
  /\ printed' = <<>>
  /\ lastError' = NoError
  /\ UNCHANGED <<env, conversationHistory, inflight, questionPending,
                 userInput, exitCode, prompts, calls, succeeded, failed,
                 turnStartLen>>
  /\ UNCHANGED <<envFile, envLine, failStreak>>
  /\ lastResponse' = NoResponse

(* ---------------------------------------------------------------------- *)
(* The body of the while loop of main(), one action per outcome of a line   *)
(* ---------------------------------------------------------------------- *)
\* the callback of rl.question resolves the promise of askUser with the line
LineArrives(line) ==
  /\ pc = "awaiting_input"
  /\ rlOpen
  /\ questionPending
  /\ questionPending' = FALSE
  /\ userInput' = line

\* "exit": farewell, rl.close(), break; main() returns and the process ends
ExitCommand(line) ==
  /\ LineArrives(line)
  /\ IsExitCommand(line)
  /\ printed' = <<Line("Goodbye")>>
  /\ rlOpen' = FALSE
  /\ pc' = "terminated"
  /\ lastError' = NoError
  /\ UNCHANGED <<env, conversationHistory, inflight, exitCode, prompts,
                 calls, succeeded, failed, turnStartLen>>
  /\ UNCHANGED <<envFile, envLine, failStreak>>
  /\ lastResponse' = NoResponse

\* variant: a blank line leaves the loop
EmptyInputBreaks(line) ==
  /\ LineArrives(line)
  /\ ~IsExitCommand(line)
  /\ IsEmptyInput(line)
  /\ printed' = <<Line("PleaseType")>>
  /\ pc' = "terminated"
  /\ lastError' = NoError
  /\ UNCHANGED <<env, conversationHistory, inflight, rlOpen, exitCode,
                 prompts, calls, succeeded, failed, turnStartLen>>
  /\ UNCHANGED <<envFile, envLine, failStreak>>
  /\ lastResponse' = NoResponse

\* blank line: reminder, continue
EmptyInput(line) ==
  /\ LineArrives(line)
  /\ ~IsExitCommand(line)
  /\ IsEmptyInput(line)
  /\ printed' = <<Line("PleaseType")>>
  /\ pc' = "prompting"
  /\ lastError' = NoError
  /\ UNCHANGED <<env, conversationHistory, inflight, rlOpen, exitCode,
                 prompts, calls, succeeded, failed, turnStartLen>>
  /\ UNCHANGED <<envFile, envLine, failStreak>>
  /\ lastResponse' = NoResponse

\* variant: the user message is pushed twice
ChatDoublePush(line) ==
  /\ LineArrives(line)
  /\ ~IsExitCommand(line)
  /\ ~IsEmptyInput(line)
  /\ printed' = <<Line("Thinking")>>
  /\ turnStartLen' = Len(conversationHistory)
  /\ conversationHistory' =
       conversationHistory \o <<UserMessage(Trim(line)), UserMessage(Trim(line))>>
  /\ inflight' = Append(inflight, conversationHistory')
  /\ calls' = calls + 1
  /\ pc' = "dispatching"
  /\ lastError' = NoError
  /\ UNCHANGED <<env, rlOpen, exitCode, prompts, succeeded, failed>>
  /\ UNCHANGED <<envFile, envLine, failStreak>>
  /\ lastResponse' = NoResponse

\* variant: chat() is called without await, the loop goes on at once
ChatNoAwait(line) ==
  /\ LineArrives(line)
  /\ ~IsExitCommand(line)
  /\ ~IsEmptyInput(line)
  /\ printed' = <<Line("Thinking")>>
  /\ turnStartLen' = Len(conversationHistory)
  /\ conversationHistory' = Append(conversationHistory, UserMessage(Trim(line)))
  /\ inflight' = Append(inflight, conversationHistory')
  /\ calls' = calls + 1
  /\ pc' = "prompting"
  /\ lastError' = NoError
  /\ UNCHANGED <<env, rlOpen, exitCode, prompts, succeeded, failed>>
  /\ UNCHANGED <<envFile, envLine, failStreak>>
  /\ lastResponse' = NoResponse

\* variant: only the system message and the newest exchange are kept
ChatSlidingWindow(line) ==
  /\ LineArrives(line)
  /\ ~IsExitCommand(line)
  /\ ~IsEmptyInput(line)
  /\ printed' = <<Line("Thinking")>>
  /\ turnStartLen' = Len(conversationHistory)
  /\ conversationHistory' =
       IF Len(conversationHistory) >= 3
       THEN <<SystemMessage>>
              \o SubSeq(conversationHistory, 3, Len(conversationHistory))
              \o <<UserMessage(Trim(line))>>
       ELSE Append(conversationHistory, UserMessage(Trim(line)))
  /\ inflight' = Append(inflight, conversationHistory')
  /\ calls' = calls + 1
  /\ pc' = "dispatching"
  /\ lastError' = NoError
  /\ UNCHANGED <<env, rlOpen, exitCode, prompts, succeeded, failed>>
  /\ UNCHANGED <<envFile, envLine, failStreak>>
  /\ lastResponse' = NoResponse

\* variant: the request carries only the system message and the new message
ChatSendsLastOnly(line) ==
  /\ LineArrives(line)
  /\ ~IsExitCommand(line)
  /\ ~IsEmptyInput(line)
  /\ printed' = <<Line("Thinking")>>
  /\ turnStartLen' = Len(conversationHistory)
  /\ conversationHistory' = Append(conversationHistory, UserMessage(Trim(line)))
  /\ inflight' = Append(inflight, <<SystemMessage, UserMessage(Trim(line))>>)
  /\ calls' = calls + 1
  /\ pc' = "dispatching"
  /\ lastError' = NoError
  /\ UNCHANGED <<env, rlOpen, exitCode, prompts, succeeded, failed>>
  /\ UNCHANGED <<envFile, envLine, failStreak>>
  /\ lastResponse' = NoResponse

\* any other line: "Thinking...", then chat(userInput.trim()) up to its await:
\* push the user message and hand the transcript to the client
Chat(line) ==
  /\ LineArrives(line)
  /\ ~IsExitCommand(line)
  /\ ~IsEmptyInput(line)
  /\ printed' = <<Line("Thinking")>>
  /\ turnStartLen' = Len(conversationHistory)
  /\ conversationHistory' = Append(conversationHistory, UserMessage(Trim(line)))
  /\ inflight' = Append(inflight, conversationHistory')
  /\ calls' = calls + 1
  /\ pc' = "dispatching"
  /\ lastError' = NoError
  /\ UNCHANGED <<env, rlOpen, exitCode, prompts, succeeded, failed>>
  /\ UNCHANGED <<envFile, envLine, failStreak>>
  /\ lastResponse' = NoResponse

\* variant: the catch block removes the user message of the failed turn
CatchRollback(error) ==
  /\ lastError' = error
  /\ printed' = ErrorNotice(error)
  /\ failed' = failed + 1
  /\ pc' = "prompting"
  /\ conversationHistory' =
       SubSeq(conversationHistory, 1, Len(conversationHistory) - 1)
  /\ UNCHANGED <<succeeded, exitCode>>
  /\ failStreak' = failStreak + 1

\* variant: an authentication failure ends the process
CatchFatal(error) ==
  /\ lastError' = error
  /\ printed' = ErrorNotice(error)
  /\ failed' = failed + 1
  /\ IF error.status = 401
     THEN pc' = "fatal" /\ exitCode' = 1
     ELSE pc' = "prompting" /\ UNCHANGED exitCode
  /\ UNCHANGED <<conversationHistory, succeeded>>
  /\ failStreak' = failStreak + 1

\* variant: the catch block records the error as the assistant's reply
CatchPushesError(error) ==
  /\ lastError' = error
  /\ printed' = ErrorNotice(error)
  /\ failed' = failed + 1
  /\ pc' = "prompting"
  /\ conversationHistory' =
       Append(conversationHistory, AssistantMessage(error.message))
  /\ UNCHANGED <<succeeded, exitCode>>
  /\ failStreak' = failStreak + 1

\* the catch block of main(): print the notice and fall through to the next
\* iteration of the loop
Catch(error) ==
  /\ lastError' = error
  /\ printed' = ErrorNotice(error)
  /\ failed' = failed + 1
  /\ pc' = "prompting"
  /\ UNCHANGED <<conversationHistory, succeeded, exitCode>>
  /\ failStreak' = failStreak + 1

\* variant: the reply is printed but not pushed
ChatResolveNoPush(choices) ==
  /\ pc = "dispatching"
  /\ inflight # <<>>
  /\ inflight' = Tail(inflight)
  /\ IF choices = <<>>
     THEN Catch(TypeError)
     ELSE /\ printed' = <<Out("Bot", choices[1]), Line("Separator")>>
          /\ succeeded' = succeeded + 1
          /\ pc' = "prompting"
          /\ lastError' = NoError
          /\ failStreak' = 0
          /\ UNCHANGED <<conversationHistory, failed, exitCode>>
  /\ UNCHANGED <<env, questionPending, rlOpen, userInput, prompts, calls,
                 turnStartLen>>
  /\ UNCHANGED <<envFile, envLine>>
  /\ lastResponse' = Response(choices)

\* variant: response.choices[0]?.message?.content, a missing choice gives an
\* undefined reply instead of an exception
ChatResolveOptionalChaining(choices) ==
  /\ pc = "dispatching"
  /\ inflight # <<>>
  /\ inflight' = Tail(inflight)
  /\ LET assistantReply == IF choices = <<>> THEN Undefined ELSE choices[1]
     IN /\ conversationHistory' =
             Append(conversationHistory, AssistantMessage(assistantReply))
        /\ printed' = <<Out("Bot", assistantReply), Line("Separator")>>
  /\ succeeded' = succeeded + 1
  /\ pc' = "prompting"
  /\ lastError' = NoError
  /\ failStreak' = 0
  /\ UNCHANGED <<failed, exitCode>>
  /\ UNCHANGED <<env, questionPending, rlOpen, userInput, prompts, calls,
                 turnStartLen>>
  /\ UNCHANGED <<envFile, envLine>>
  /\ lastResponse' = Response(choices)

\* create() resolves: the rest of chat() and of the try block
ChatResolve(choices) ==
  /\ pc = "dispatching"
  /\ inflight # <<>>
  /\ inflight' = Tail(inflight)
  /\ IF choices = <<>>
     THEN Catch(TypeError)
     ELSE /\ conversationHistory' =
               Append(conversationHistory, AssistantMessage(choices[1]))
          /\ printed' = <<Out("Bot", choices[1]), Line("Separator")>>
          /\ succeeded' = succeeded + 1
          /\ pc' = "prompting"
          /\ lastError' = NoError
          /\ failStreak' = 0
          /\ UNCHANGED <<failed, exitCode>>
  /\ UNCHANGED <<env, questionPending, rlOpen, userInput, prompts, calls,
                 turnStartLen>>
  /\ UNCHANGED <<envFile, envLine>>
  /\ lastResponse' = Response(choices)

\* variant: a rate-limited or unavailable request is sent again once
ChatRejectRetry(error) ==
  /\ pc = "dispatching"
  /\ inflight # <<>>
  /\ IF error.status \in {429, 500} /\ calls < 2 * MaxPrompts
     THEN /\ inflight' = <<conversationHistory>>
          /\ calls' = calls + 1
          /\ lastError' = NoError
          /\ printed' = <<>>
          /\ UNCHANGED <<pc, conversationHistory, succeeded, failed, exitCode,
                         failStreak>>
     ELSE /\ inflight' = Tail(inflight)
          /\ Catch(error)
          /\ UNCHANGED calls
  /\ UNCHANGED <<env, questionPending, rlOpen, userInput, prompts, turnStartLen>>
  /\ UNCHANGED <<envFile, envLine>>
  /\ lastResponse' = NoResponse

\* create() rejects: chat() throws at its await, main() catches
ChatReject(error) ==
  /\ pc = "dispatching"
  /\ inflight # <<>>
  /\ inflight' = Tail(inflight)
  /\ Catch(error)
  /\ UNCHANGED <<env, questionPending, rlOpen, userInput, prompts, calls,
                 turnStartLen>>
  /\ UNCHANGED <<envFile, envLine>>
  /\ lastResponse' = NoResponse

(* ---------------------------------------------------------------------- *)
(* loadEnv line by line: the same startup, one iteration of the for loop    *)
(* per step, over every file of up to MaxFileLines lines                    *)
(* ---------------------------------------------------------------------- *)
InitEnv ==
  /\ pc = "start"
  /\ env \in InitialEnvs
  /\ envFile \in LineFiles \cup {Unreadable}
  /\ envLine = 0
  /\ conversationHistory = <<>>
  /\ inflight = <<>>
  /\ questionPending = FALSE
  /\ rlOpen = FALSE
  /\ userInput = <<>>
  /\ lastError = NoError
  /\ printed = <<>>
  /\ exitCode = 0
  /\ prompts = 0
  /\ calls = 0
  /\ succeeded = 0
  /\ failed = 0
  /\ turnStartLen = 0
  /\ lastResponse = NoResponse
  /\ failStreak = 0

\* one iteration of the for loop of loadEnv
LoadEnvStep ==
  /\ pc = "start"
  /\ envLine < Len(FileLines(envFile))
  /\ env' = LoadEnvLine(env, FileLines(envFile)[envLine + 1])
  /\ envLine' = envLine + 1
  /\ UNCHANGED <<pc, conversationHistory, inflight, questionPending, rlOpen,
                 userInput, lastError, printed, exitCode, prompts, calls,
                 succeeded, failed, turnStartLen, envFile, lastResponse,
                 failStreak>>

\* the loop is over (or readFileSync threw): the rest of startup
LoadEnvDone ==
  /\ pc = "start"
  /\ envLine = Len(FileLines(envFile))
  /\ UNCHANGED <<env, envLine>>
  /\ AfterLoadEnv(LoadEnvWarning(envFile))

NextEnv ==
  \/ LoadEnvStep
  \/ LoadEnvDone

SpecEnv == InitEnv /\ [][NextEnv]_vars

Next ==
  \/ \E file \in EnvFiles : Startup(file)
  \/ AskUser
  \/ StdinEnd
  \/ \E line \in InputLines : ExitCommand(line)
  \/ \E line \in InputLines : EmptyInput(line)
  \/ \E line \in InputLines : Chat(line)
  \/ \E choices \in Responses : ChatResolve(choices)
  \/ \E error \in ApiErrors : ChatReject(error)

Spec == Init /\ [][Next]_vars

TypeOK ==
  /\ pc \in {"start", "prompting", "awaiting_input", "dispatching",
             "terminated", "fatal", "aborted"}
  /\ exitCode \in {0, 1}
  /\ prompts \in 0..MaxPrompts
  /\ calls = succeeded + failed + Len(inflight)

(* ---------------------------------------------------------------------- *)
(* Properties                                                               *)
(* ---------------------------------------------------------------------- *)
Role(i) == conversationHistory[i].role

\* the interaction loop has started (the transcript exists)
InLoop == pc \in {"prompting", "awaiting_input", "dispatching", "terminated",
                  "aborted"}

\* system first, then user at the even and assistant at the odd positions
Alternates ==
  /\ conversationHistory # <<>>
  /\ Role(1) = "system"
  /\ \A i \in 2..Len(conversationHistory) :
       Role(i) = IF i % 2 = 0 THEN "user" ELSE "assistant"

\* number of places where a user message directly follows a user message
AdjacentUserPairs ==
  Cardinality({i \in 2..Len(conversationHistory) :
                 Role(i) = "user" /\ Role(i - 1) = "user"})

\* a line was delivered to the loop in this step
LineDelivered == questionPending /\ ~questionPending'

\* C1 (as stated): in every state of the interaction loop the transcript
\* alternates system, user, assistant, user, assistant, ... with no two
\* adjacent user messages.
C1_AlwaysAlternates == InLoop => Alternates

\* C1 (amended): in every state of the interaction loop the transcript is one
\* system message followed by user and assistant messages in which every
\* assistant message directly follows a user message; two adjacent user
\* messages occur only after a failed turn (at most one such pair per failed
\* turn), so the transcript alternates as long as no turn has failed.
C1_AlternatesUpToFailures ==
  InLoop =>
    /\ conversationHistory # <<>>
    /\ Role(1) = "system"
    /\ \A i \in 2..Len(conversationHistory) :
         /\ Role(i) \in {"user", "assistant"}
         /\ Role(i) = "assistant" => Role(i - 1) = "user"
    /\ Len(conversationHistory) > 1 => Role(2) = "user"
    /\ AdjacentUserPairs <= failed
    /\ failed = 0 => Alternates

\* C1 witness: a failed turn was followed by another turn, leaving two
\* adjacent user messages
C1_Witness ==
  /\ pc = "dispatching"
  /\ failed = 1
  /\ AdjacentUserPairs = 1

\* C2: when all N turns so far succeeded and none is in progress, the
\* transcript has exactly 1 + 2N messages: system, then N (user, assistant)
\* pairs, whatever empty inputs came in between.
C2_LengthAfterSuccesses ==
  (InLoop /\ failed = 0 /\ inflight = <<>>) =>
    /\ Len(conversationHistory) = 1 + 2 * succeeded
    /\ Role(1) = "system"
    /\ \A n \in 1..succeeded :
         Role(2 * n) = "user" /\ Role(2 * n + 1) = "assistant"

\* C2 witness: two successful turns and one empty input
C2_Witness ==
  /\ pc = "prompting"
  /\ succeeded = 2
  /\ failed = 0
  /\ prompts = 3
  /\ Len(conversationHistory) = 5

\* C3: a turn that fails returns to prompting with the transcript exactly one
\* longer than before the turn, the added message being the user message.
C3_FailedTurnAddsOne ==
  [][failed' = failed + 1 =>
       /\ pc' = "prompting"
       /\ Len(conversationHistory') = turnStartLen + 1
       /\ conversationHistory'[Len(conversationHistory')].role = "user"
       /\ conversationHistory' = conversationHistory]_vars

\* C3 witness: a second turn has failed, on an error without status
C3_Witness ==
  /\ pc = "prompting"
  /\ failed = 2
  /\ lastError \in ApiErrors
  /\ lastError.status = NoStatus
  /\ Len(conversationHistory) = turnStartLen + 1

\* C4: at most one request is outstanding; while one is outstanding the loop
\* is at the await of the call, no question is pending, and no step asks for
\* input or appends a user message; an outstanding request only goes away by
\* being settled (reply printed or failure reported).
C4_OneOutstandingCall ==
  /\ [](/\ Len(inflight) <= 1
        /\ inflight # <<>> => (pc = "dispatching" /\ ~questionPending))
  /\ [][inflight # <<>> =>
          /\ prompts' = prompts
          /\ questionPending' = questionPending
          /\ calls' = calls
          /\ \/ conversationHistory' = conversationHistory
             \/ /\ Len(conversationHistory') = Len(conversationHistory) + 1
                /\ conversationHistory'[Len(conversationHistory')].role
                     = "assistant"
          /\ inflight' # inflight =>
               /\ inflight' = <<>>
               /\ succeeded' + failed' = succeeded + failed + 1
               /\ printed' # <<>>]_vars

\* C4 witness: the second request is outstanding
C4_Witness ==
  /\ pc = "dispatching"
  /\ Len(inflight) = 1
  /\ calls = 2
  /\ ~questionPending

\* C5: whenever an outstanding request is settled, with a reply or with any
\* failure, the loop is next at its top, about to prompt; the process has not
\* ended and its exit code is untouched.
C5_FailureCaughtAtTurnBoundary ==
  [][(inflight # <<>> /\ inflight' # inflight) =>
       /\ pc' = "prompting"
       /\ exitCode' = exitCode
       /\ rlOpen' = rlOpen]_vars

\* C5 witness: after a failed turn (status 401) the loop is waiting for the
\* next line
C5_Witness ==
  /\ pc = "awaiting_input"
  /\ failed = 1
  /\ succeeded = 0
  /\ prompts = 2
  /\ exitCode = 0
  /\ Len(conversationHistory) = 2

\* C6: a delivered line that is empty or only white space leaves the
\* transcript unchanged, invokes no request, prints the reminder and takes the
\* loop back to its top.
C6_EmptyInputNoEffect ==
  [][(LineDelivered /\ \A i \in 1..Len(userInput') : userInput'[i] \in WhiteSpace)
       =>
       /\ conversationHistory' = conversationHistory
       /\ calls' = calls
       /\ inflight' = inflight
       /\ printed' = <<Line("PleaseType")>>
       /\ pc' = "prompting"]_vars

\* C6 witness: a white-space-only line was answered with the reminder after
\* one completed turn
C6_Witness ==
  /\ pc = "prompting"
  /\ userInput = InBlank
  /\ printed = <<Line("PleaseType")>>
  /\ calls = 1
  /\ Len(conversationHistory) = 3

\* C7: a delivered line whose trimmed, lower-cased form is "exit" ends the
\* loop with the farewell and exit code 0, makes no request and leaves the
\* transcript unchanged; as the first input, the transcript is still only the
\* system message.
C7_ExitTerminates ==
  [][(LineDelivered /\ ToLowerCase(Trim(userInput')) = ExitWord) =>
       /\ pc' = "terminated"
       /\ exitCode' = 0
       /\ printed' = <<Line("Goodbye")>>
       /\ calls' = calls
       /\ inflight' = inflight
       /\ conversationHistory' = conversationHistory
       /\ prompts = 1 => conversationHistory' = <<SystemMessage>>]_vars

\* C7 witness: "  EXIT  " ended the loop after an earlier turn
C7_Witness ==
  /\ pc = "terminated"
  /\ userInput = InExitPad
  /\ exitCode = 0
  /\ calls = 1
  /\ inflight = <<>>

\* a credential is present: GITHUB_TOKEN is set to a non-empty value
CredentialPresent == GITHUB_TOKEN \in DOMAIN env /\ env[GITHUB_TOKEN] # <<>>

\* C8: once the config is loaded without a credential, the process has exited
\* with code 1 before the loop: no prompt was issued, no request was made and
\* the transcript was never created.
C8_NoCredentialExits ==
  (pc # "start" /\ ~CredentialPresent) =>
    /\ pc = "fatal"
    /\ exitCode = 1
    /\ prompts = 0
    /\ calls = 0
    /\ inflight = <<>>
    /\ ~questionPending
    /\ conversationHistory = <<>>

\* C8 witness: the file set the credential to the empty string
C8_Witness ==
  /\ pc = "fatal"
  /\ GITHUB_TOKEN \in DOMAIN env
  /\ env[GITHUB_TOKEN] = <<>>
  /\ exitCode = 1

\* C9: create() is invoked exactly once for each delivered line that is
\* neither blank nor the exit command, and by no other step: in particular a
\* failure invokes nothing further.
C9_OneCallPerLine ==
  [][/\ (LineDelivered /\ Trim(userInput') # <<>>
           /\ ToLowerCase(Trim(userInput')) # ExitWord)
          => (calls' = calls + 1 /\ inflight' = Append(inflight, conversationHistory'))
     /\ calls' # calls =>
          /\ LineDelivered
          /\ Trim(userInput') # <<>>
          /\ ToLowerCase(Trim(userInput')) # ExitWord
     /\ failed' = failed + 1 => (calls' = calls /\ inflight' = <<>>)]_vars

\* C9 witness: a rate-limited turn failed and the loop waits for the operator
\* with a single invocation made
C9_Witness ==
  /\ pc = "prompting"
  /\ lastError \in ApiErrors
  /\ lastError.status = 429
  /\ calls = 1
  /\ failed = 1
  /\ inflight = <<>>

\* C10: the notice of a failed turn depends on the status alone: 401 the
\* credential guidance, 429 the rate-limit notice, 500 the upstream notice,
\* anything else (also no status) the generic notice with the error's message;
\* nothing else is printed in that step.
C10_NoticeByStatus ==
  [][failed' = failed + 1 =>
       printed' =
         CASE lastError'.status = 401 ->
                <<Line("AuthenticationError"), Line("CheckEnvFile")>>
           [] lastError'.status = 429 -> <<Line("RateLimitReached")>>
           [] lastError'.status = 500 -> <<Line("ServerError")>>
           [] OTHER -> <<Out("UnexpectedError", lastError'.message)>>]_vars

\* C10 witness: a failure with status 404 got the generic notice
C10_Witness ==
  /\ pc = "prompting"
  /\ lastError \in ApiErrors
  /\ lastError.status = 404
  /\ printed = <<Out("UnexpectedError", lastError.message)>>

\* s is an initial segment of t
IsPrefix(s, t) == Len(s) <= Len(t) /\ \A i \in 1..Len(s) : s[i] = t[i]

\* C11: the transcript is append-only: across every step the old transcript
\* is a prefix of the new one (nothing removed, reordered or rewritten), and a
\* transcript that exists starts with the fixed system message.
C11_AppendOnly ==
  [][/\ IsPrefix(conversationHistory, conversationHistory')
     /\ conversationHistory' # <<>> =>
          conversationHistory'[1] = SystemMessage]_vars

\* C11 witness: the transcript has grown over a failed and a successful turn
C11_Witness ==
  /\ pc = "dispatching"
  /\ Len(conversationHistory) = 5
  /\ succeeded = 1
  /\ failed = 1

\* the process has ended
Ended == pc \in {"terminated", "fatal", "aborted"}

\* C12: once the loop has started, it is left through its break only by a
\* delivered exit command; the only other way the process ends is that stdin
\* was closed under it (no farewell, not the loop's own exit).  No empty
\* input, reply or failure ends it.
C12_TerminatedOnlyByExit ==
  [][(pc \in {"prompting", "awaiting_input", "dispatching"} /\ Ended') =>
       \/ /\ pc' = "terminated"
          /\ LineDelivered
          /\ ToLowerCase(Trim(userInput')) = ExitWord
          /\ printed' = <<Line("Goodbye")>>
       \/ /\ pc' = "aborted"
          /\ ~rlOpen'
          /\ ~LineDelivered
          /\ succeeded' = succeeded
          /\ failed' = failed]_vars

\* C12 witness: the loop ended on "exit" after a failed and a successful turn
C12_Witness ==
  /\ pc = "terminated"
  /\ failed = 1
  /\ succeeded = 1
  /\ prompts = 3
  /\ printed = <<Line("Goodbye")>>

(* ---------------------------------------------------------------------- *)
(* Properties of the config loader (checked under SpecEnv)                  *)
(* ---------------------------------------------------------------------- *)
\* the line consumed by the step of loadEnv just taken, when one was taken
LineStepped == pc = "start" /\ envLine' = envLine + 1
SteppedLine == Trim(FileLines(envFile)[envLine + 1])

\* position of the first "=" of t
FirstEq(t) ==
  CHOOSE p \in 1..Len(t) : t[p] = "=" /\ \A j \in 1..(p - 1) : t[j] # "="

\* the trimmed line t is a KEY=VALUE line: not empty, not a comment, has "="
WellFormed(t) ==
  /\ t # <<>>
  /\ t[1] # "#"
  /\ \E p \in 1..Len(t) : t[p] = "="

KeyOf(t) == Trim(SubSeq(t, 1, FirstEq(t) - 1))
ValueOf(t) == Trim(SubSeq(t, FirstEq(t) + 1, Len(t)))

\* C13: a line that after trimming is non-empty, is no comment and contains
\* "=" sets the entry whose key is the trimmed text before the first "=" to
\* the trimmed text after it (further "=" included) and touches no other
\* entry.
C13_WellFormedLineSetsEntry ==
  [][(LineStepped /\ WellFormed(SteppedLine)) =>
       /\ DOMAIN env' = (DOMAIN env) \cup {KeyOf(SteppedLine)}
       /\ env'[KeyOf(SteppedLine)] = ValueOf(SteppedLine)
       /\ \A k \in DOMAIN env : k # KeyOf(SteppedLine) => env'[k] = env[k]]_vars

\* C13 witness: FOO=bar=baz was the second line and FOO is "bar=baz"
C13_Witness ==
  /\ envLine = 2
  /\ FileLines(envFile)[2] = LineTwoEq
  /\ FOO \in DOMAIN env
  /\ env[FOO] = <<"b", "a", "r", "=", "b", "a", "z">>

\* C14: a line that is empty, only white space, or a comment (its first
\* non-blank character is "#") leaves the configuration as it was, also when
\* it contains "=".
C14_SkippedLineNoEntry ==
  [][(LineStepped /\ (SteppedLine = <<>> \/ Head(SteppedLine) = "#")) =>
       env' = env]_vars

\* C14 witness: the comment line #GITHUB_TOKEN=x was read and the credential
\* of the environment is still the old one
C14_Witness ==
  /\ envLine = 1
  /\ FileLines(envFile)[1] = LineCommentedToken
  /\ GITHUB_TOKEN \in DOMAIN env
  /\ env[GITHUB_TOKEN] = EnvTok

(* ---------------------------------------------------------------------- *)
(* Properties of startup and of the requests (checked under Spec)           *)
(* ---------------------------------------------------------------------- *)
\* C15: when .env cannot be read, startup reports it, leaves process.env as
\* it was and goes on to the credential check: with a credential in the
\* environment the loop starts (exit code untouched), without one the process
\* exits with code 1.
C15_UnreadableFileNotFatal ==
  [][(pc = "start" /\ pc' # "start" /\ envFile = Unreadable) =>
       /\ env' = env
       /\ printed'[1] = Line("CouldNotReadEnv")
       /\ IF GITHUB_TOKEN \in DOMAIN env /\ env[GITHUB_TOKEN] # <<>>
          THEN /\ pc' = "prompting"
               /\ exitCode' = 0
               /\ conversationHistory' = <<SystemMessage>>
               /\ printed'[2] = Line("Banner")
          ELSE /\ pc' = "fatal"
               /\ exitCode' = 1]_vars

\* C15 witness: with an unreadable .env and a credential in the environment
\* the loop runs and a turn has been answered
C15_Witness ==
  /\ envFile = Unreadable
  /\ pc = "prompting"
  /\ succeeded = 1
  /\ env = (GITHUB_TOKEN :> EnvTok)

\* the request most recently handed to the client
Sent == inflight[Len(inflight)]

\* C16: the user message of a failed turn stays and is sent again: a request
\* made after k consecutive failed turns ends with exactly k + 1 user
\* messages, the k kept ones followed by the new one.
C16_FailedMessagesResent ==
  inflight # <<>> =>
    /\ Len(Sent) >= failStreak + 2
    /\ \A i \in (Len(Sent) - failStreak)..Len(Sent) : Sent[i].role = "user"
    /\ Sent[Len(Sent) - failStreak - 1].role # "user"
    /\ Sent[Len(Sent)].content = Trim(userInput)
    /\ Len(Sent) = turnStartLen + 1

\* C16 witness: two turns failed one after the other and the third request
\* ends with three user messages
C16_Witness ==
  /\ pc = "dispatching"
  /\ inflight # <<>>
  /\ failStreak = 2
  /\ Len(Sent) = 4
  /\ \A i \in 2..4 : Sent[i].role = "user"

\* C17: every request carries the whole transcript as it is at the call, in
\* order and untruncated; its last message is the user message just appended,
\* whose content is the trimmed line of this turn; while the request is
\* outstanding it still equals the transcript.
C17_RequestCarriesTranscript ==
  /\ [][calls' # calls =>
          /\ inflight' # <<>>
          /\ inflight'[Len(inflight')] = conversationHistory'
          /\ conversationHistory' =
               Append(conversationHistory,
                      [role |-> "user", content |-> Trim(userInput')])]_vars
  /\ [](inflight # <<>> => Sent = conversationHistory)

\* C17 witness: the second request carries the four messages of the
\* transcript, ending with the trimmed new line
C17_Witness ==
  /\ pc = "dispatching"
  /\ inflight # <<>>
  /\ userInput = InHiPad
  /\ Len(Sent) = 4
  /\ Sent[3].role = "assistant"
  /\ Sent[4] = [role |-> "user", content |-> InHi]

\* number of messages of the transcript with the given role
CountRole(r) ==
  Cardinality({i \in 1..Len(conversationHistory) : Role(i) = r})

\* C18: the transcript has as many user messages as create() calls were
\* started and as many assistant messages as turns ended with a reply, and
\* every assistant message directly follows a user message.
C18_MessageCounts ==
  InLoop =>
    /\ CountRole("user") = calls
    /\ CountRole("assistant") = succeeded
    /\ CountRole("system") = 1
    /\ \A i \in 1..Len(conversationHistory) :
         Role(i) = "assistant" => (i > 1 /\ Role(i - 1) = "user")

\* C18 witness: three calls were started, one was answered, one failed and
\* one is outstanding
C18_Witness ==
  /\ pc = "dispatching"
  /\ calls = 3
  /\ succeeded = 1
  /\ failed = 1
  /\ CountRole("user") = 3
  /\ CountRole("assistant") = 1

\* C19: a response with an empty list of choices is a failed turn: the user
\* message stays as the last message, no assistant message is appended, the
\* generic unexpected-error notice alone is printed and the loop is back at
\* its top.
C19_EmptyChoicesIsFailure ==
  [][(lastResponse'.settled /\ lastResponse'.choices = <<>>) =>
       /\ conversationHistory' = conversationHistory
       /\ conversationHistory'[Len(conversationHistory')].role = "user"
       /\ failed' = failed + 1
       /\ succeeded' = succeeded
       /\ Len(printed') = 1
       /\ printed'[1].kind = "UnexpectedError"
       /\ pc' = "prompting"
       /\ exitCode' = exitCode]_vars

\* C19 witness: after one reply, a response without choices was reported
C19_Witness ==
  /\ pc = "prompting"
  /\ lastResponse = Response(<<>>)
  /\ succeeded = 1
  /\ failed = 1
  /\ Len(conversationHistory) = 4
  /\ printed = <<Out("UnexpectedError", TypeError.message)>>

\* the lines of .env, trimmed, and the well-formed ones among them that set k
TrimmedLine(i) == Trim(FileLines(envFile)[i])
Setters(k) ==
  {i \in 1..Len(FileLines(envFile)) :
     WellFormed(TrimmedLine(i)) /\ KeyOf(TrimmedLine(i)) = k}
LastSetter(k) == CHOOSE i \in Setters(k) : \A j \in Setters(k) : j <= i

\* C20: after the load every variable set by the file has the value of the
\* last line that sets it, whatever the environment held before, and every
\* other variable is as before; so a file whose last credential line is
\* GITHUB_TOKEN= makes startup exit with code 1 even when the environment
\* held a credential.
C20_FileOverwritesEnv ==
  [][(pc = "start" /\ pc' # "start") =>
       /\ DOMAIN env' =
            (DOMAIN env) \cup
              {KeyOf(TrimmedLine(i)) :
                 i \in {j \in 1..Len(FileLines(envFile)) :
                          WellFormed(TrimmedLine(j))}}
       /\ \A k \in DOMAIN env' :
            env'[k] = IF Setters(k) # {}
                      THEN ValueOf(TrimmedLine(LastSetter(k)))
                      ELSE env[k]
       /\ (/\ Setters(GITHUB_TOKEN) # {}
           /\ ValueOf(TrimmedLine(LastSetter(GITHUB_TOKEN))) = <<>>)
            => (pc' = "fatal" /\ exitCode' = 1 /\ conversationHistory' = <<>>)]_vars

\* C20 witness: the environment held a credential (next to FOO = 0, which no
\* file sets); the file set GITHUB_TOKEN twice, last to the empty string, and
\* startup exited with code 1
C20_Witness ==
  /\ pc = "fatal"
  /\ exitCode = 1
  /\ envFile = FileTokenThenEmpty
  /\ env = (GITHUB_TOKEN :> <<>>) @@ (FOO :> EnvFoo)

====
